---- MODULE Spec2Model ----
(***************************************************************************)
(* Model of the dmdb dialect of sequelize-dm8: the connection manager      *)
(* (connection-manager.js), the query generator (query-generator.js) and   *)
(* the query executor / error classifier (query.js).                       *)
(*                                                                         *)
(* Each component has its own specification (SpecConn, SpecUpsert, ...).   *)
(* The variables of the components a specification does not exercise stay  *)
(* at their idle values.                                                   *)
(***************************************************************************)
EXTENDS Integers, Sequences, FiniteSets, TLC

VARIABLES
  \* ---- connection manager -------------------------------------------------
  connPc,          \* position of connect(): none/createPool/getConnection/acquired/failed
  connAttempts,    \* number of connect() calls made
  connectString,   \* connectionConfig.connectString built by connect()
  fetchAsString,   \* this.lib.fetchAsString
  connThrown,      \* errors thrown by the current connect() call, in order
  connection,      \* the four driver-owned flags of the acquired connection
  closeCalls,      \* number of times the driver's connection.close was invoked
  closeFired,      \* the close callbacks the driver has fired: disconnect call and error
  disc,            \* position of each disconnect() call
  validated,       \* <<>> or <<argument and result of the last validate() call>>
  \* ---- upsertQuery ----------------------------------------------------------
  upIn,            \* arguments of upsertQuery (model, insertValues, updateValues, options)
  upOut,           \* results of the upsertQuery calls made on upIn, in order
  \* ---- _checkValidJsonStatement / handleSequelizeMethod ------------------
  jsStmt,          \* smth.path, the statement being checked
  jsPc,            \* none/scan/check/done
  currentIndex,
  openingBrackets,
  closingBrackets,
  hasJsonFunction,
  hasInvalidToken,
  functionCalls,   \* end positions in jsStmt of the function calls the loop matched
  jsOut,           \* <<>> or <<outcome of handleSequelizeMethod>>
  \* ---- request validation ---------------------------------------------------
  rqIn,            \* the current request: which of replacements / bind it supplies
  rqPc,            \* none/new/rejected/validated/acquired/sent/done
  rqCount,         \* number of requests issued
  rqError,         \* <<>> or <<message of the construction error>>
  acquired,        \* connections acquired from the pool
  emitted,         \* statements handed to the driver
  \* ---- Query.formatError ----------------------------------------------------
  feIn,            \* the driver error given to formatError, and this.model
  feOut,           \* <<>> or <<outcome of formatError>>
  \* ---- createTableQuery -----------------------------------------------------
  ctIn,            \* arguments of createTableQuery (tableName, attributes, options)
  ctOut,           \* statements returned by the createTableQuery calls made on ctIn, in order
  \* ---- attributeToSQL, deleteQuery -----------------------------------------
  atIn,            \* arguments of attributeToSQL (attribute, options)
  atOut,           \* templates returned by the attributeToSQL calls made on atIn, in order
  dqIn,            \* arguments of deleteQuery (tableName, where, options)
  dqOut,           \* texts returned by the deleteQuery calls made on dqIn, in order
  \* ---- Query.run -------------------------------------------------------------
  runIn,           \* the Query object's options and the arguments of run
  runStack,        \* the run calls in progress, the innermost last
  runTx,           \* options.transaction.finished
  runThrown,       \* exceptions that left the driver's completion callback
  runIssued,       \* statements handed to connection.execute, in order
  runLog,          \* events of the run, in order
  runResult,       \* <<>> while the returned promise is pending, else <<its outcome>>
  \* ---- Query.formatBindParameters -------------------------------------------
  fbIn,            \* arguments of formatBindParameters (sql, values)
  fbOut            \* <<>> or <<outcome of formatBindParameters>>

connVars == <<connPc, connAttempts, connectString, fetchAsString, connThrown,
              connection, closeCalls, closeFired, disc, validated>>

upVars == <<upIn, upOut>>

jsVars == <<jsStmt, jsPc, currentIndex, openingBrackets, closingBrackets,
            hasJsonFunction, hasInvalidToken, functionCalls, jsOut>>

rqVars == <<rqIn, rqPc, rqCount, rqError, acquired, emitted>>

feVars == <<feIn, feOut>>

ctVars == <<ctIn, ctOut>>

atVars == <<atIn, atOut, dqIn, dqOut>>

runVars == <<runIn, runStack, runTx, runThrown, runIssued, runLog, runResult>>

fbVars == <<fbIn, fbOut>>

vars == <<connVars, upVars, jsVars, rqVars, feVars, ctVars, atVars, runVars, fbVars>>

\* the variables each component leaves alone
nonConnVars ==
  <<upVars, jsVars, rqVars, feVars, ctVars, atVars, runVars, fbVars>>
nonUpVars ==
  <<connVars, jsVars, rqVars, feVars, ctVars, atVars, runVars, fbVars>>
nonJsonVars ==
  <<connVars, upVars, rqVars, feVars, ctVars, atVars, runVars, fbVars>>
nonRqVars ==
  <<connVars, upVars, jsVars, feVars, ctVars, atVars, runVars, fbVars>>
nonFeVars ==
  <<connVars, upVars, jsVars, rqVars, ctVars, atVars, runVars, fbVars>>
nonCtVars ==
  <<connVars, upVars, jsVars, rqVars, feVars, atVars, runVars, fbVars>>
nonAtVars ==
  <<connVars, upVars, jsVars, rqVars, feVars, ctVars, runVars, fbVars>>
nonRunVars ==
  <<connVars, upVars, jsVars, rqVars, feVars, ctVars, atVars, fbVars>>
nonFbVars ==
  <<connVars, upVars, jsVars, rqVars, feVars, ctVars, atVars, runVars>>

Undefined == "undefined"
None == "none"

InSeq(x, q) == \E i \in 1..Len(q) : q[i] = x

(***************************************************************************)
(* Bounds                                                                  *)
(***************************************************************************)
MaxConnects == 2
MaxDisconnects == 2
MaxFields == 3
MaxLen == 5
MaxRequests == 3
MaxEntry == 3
MaxColumns == 3
MaxCalls == 2
MaxRows == 2
MaxDepth == 2
MaxTokens == 3
MaxScanLen == 4

(***************************************************************************)
(* Connection manager                                                      *)
(***************************************************************************)
\* error codes a driver error may carry in err.errCode (absent = Undefined)
ErrCodes == {"ECONNREFUSED", "ER_ACCESS_DENIED_ERROR", "ENOTFOUND",
             "EHOSTUNREACH", "EINVAL", "ETIMEDOUT", Undefined}

DriverErrors == [errCode : ErrCodes]

\* config.database: a schema name or empty
Databases == {"", "SYSDBA"}

FreshConnection ==
  [_fatalError |-> FALSE, _protocolError |-> FALSE, _closing |-> FALSE, closed |-> FALSE]

FlagNames == {"_fatalError", "_protocolError", "_closing", "closed"}

\* the switch of connect()'s catch block
classifyMutant(err) ==
  CASE err.errCode = "ECONNREFUSED"           -> [name |-> "ConnectionRefusedError", parent |-> err]
    [] err.errCode = "ER_ACCESS_DENIED_ERROR" -> [name |-> "AccessDeniedError", parent |-> err]
    [] err.errCode = "ENOTFOUND"              -> [name |-> "HostNotReachableError", parent |-> err]
    [] err.errCode = "EHOSTUNREACH"           -> [name |-> "HostNotReachableError", parent |-> err]
    [] err.errCode = "EINVAL"                 -> [name |-> "InvalidConnectionError", parent |-> err]
    [] OTHER                                  -> [name |-> "ConnectionError", parent |-> err]

classify(err) ==
  CASE err.errCode = "ECONNREFUSED"           -> [name |-> "ConnectionRefusedError", parent |-> err]
    [] err.errCode = "ER_ACCESS_DENIED_ERROR" -> [name |-> "AccessDeniedError", parent |-> err]
    [] err.errCode = "ENOTFOUND"              -> [name |-> "HostNotFoundError", parent |-> err]
    [] err.errCode = "EHOSTUNREACH"           -> [name |-> "HostNotReachableError", parent |-> err]
    [] err.errCode = "EINVAL"                 -> [name |-> "InvalidConnectionError", parent |-> err]
    [] OTHER                                  -> [name |-> "ConnectionError", parent |-> err]

\* connect(config) up to the first await: builds the connect string, sets
\* lib.fetchAsString and calls lib.createPool
Connect ==
  /\ connPc \in {None, "failed"}
  /\ connAttempts < MaxConnects
  /\ \E database \in Databases :
       connectString' = IF database # ""
                          THEN <<"autoCommit=true", "schema=" \o database>>
                          ELSE <<"autoCommit=true">>
  /\ fetchAsString' = <<"CLOB">>
  /\ connThrown' = <<>>
  /\ connAttempts' = connAttempts + 1
  /\ connPc' = "createPool"
  /\ UNCHANGED <<connection, closeCalls, closeFired, disc, validated>>
  /\ UNCHANGED nonConnVars

\* lib.createPool resolves: connect calls pool.getConnection
CreatePoolResolves ==
  /\ connPc = "createPool"
  /\ connPc' = "getConnection"
  /\ UNCHANGED <<connAttempts, connectString, fetchAsString, closeFired, connThrown,
                 connection, closeCalls, disc, validated>>
  /\ UNCHANGED nonConnVars

\* lib.createPool rejects with err: the catch block classifies and throws
CreatePoolRejects ==
  /\ connPc = "createPool"
  /\ \E err \in DriverErrors : connThrown' = Append(connThrown, classify(err))
  /\ connPc' = "failed"
  /\ UNCHANGED <<connAttempts, connectString, fetchAsString, closeFired,
                 connection, closeCalls, disc, validated>>
  /\ UNCHANGED nonConnVars

\* pool.getConnection resolves: connect returns the connection
GetConnectionResolves ==
  /\ connPc = "getConnection"
  /\ connPc' = "acquired"
  /\ connection' = FreshConnection
  /\ UNCHANGED <<connAttempts, connectString, fetchAsString, closeFired, connThrown,
                 closeCalls, disc, validated>>
  /\ UNCHANGED nonConnVars

\* pool.getConnection rejects with err: the catch block classifies and throws
GetConnectionRejects ==
  /\ connPc = "getConnection"
  /\ \E err \in DriverErrors : connThrown' = Append(connThrown, classify(err))
  /\ connPc' = "failed"
  /\ UNCHANGED <<connAttempts, connectString, fetchAsString, closeFired,
                 connection, closeCalls, disc, validated>>
  /\ UNCHANGED nonConnVars

\* the driver owns the flags: it may raise any of them at any time
DriverSetsFlag ==
  /\ connPc = "acquired"
  /\ \E f \in FlagNames :
       /\ connection[f] = FALSE
       /\ connection' = [connection EXCEPT ![f] = TRUE]
  /\ UNCHANGED <<connPc, connAttempts, connectString, fetchAsString, closeFired, connThrown,
                 closeCalls, disc, validated>>
  /\ UNCHANGED nonConnVars

\* validate(connection) for a connection object handed out by the pool
validateMutant(c) ==
  /\ ~c._fatalError
  /\ ~c._protocolError
  /\ ~c._closing

validate(c) ==
  /\ ~c._fatalError
  /\ ~c._protocolError
  /\ ~c._closing
  /\ ~c.closed

Validate ==
  /\ connPc = "acquired"
  /\ validated' = <<[arg |-> connection, result |-> validate(connection)]>>
  /\ UNCHANGED <<connPc, connAttempts, connectString, fetchAsString, closeFired, connThrown,
                 connection, closeCalls, disc>>
  /\ UNCHANGED nonConnVars

\* disconnect(connection): the test of _closing and the call of
\* connection.close(callback) run in the same tick
disconnectMutant(c) == IF c._closing THEN "returned" ELSE "resolved"

disconnect(c) == IF c._closing THEN "returned" ELSE "closing"

Disconnect(d) ==
  /\ connPc = "acquired"
  /\ disc[d] = "idle"
  /\ disc' = [disc EXCEPT ![d] = disconnect(connection)]
  /\ closeCalls' = IF disconnect(connection) = "closing" THEN closeCalls + 1 ELSE closeCalls
  /\ UNCHANGED <<connPc, connAttempts, connectString, fetchAsString, closeFired, connThrown,
                 connection, validated>>
  /\ UNCHANGED nonConnVars

\* the driver fires the callback given to connection.close, with or without
\* an error; the promisified call settles accordingly
promisify(err) == IF err = Undefined THEN "resolved" ELSE "rejected"

CloseCallback(d) ==
  /\ disc[d] = "closing"
  /\ \E err \in {Undefined, "error"} :
       /\ disc' = [disc EXCEPT ![d] = promisify(err)]
       /\ closeFired' = Append(closeFired, [d |-> d, err |-> err])
  /\ UNCHANGED <<connPc, connAttempts, connectString, fetchAsString, connThrown,
                 connection, closeCalls, validated>>
  /\ UNCHANGED nonConnVars

(***************************************************************************)
(* Query generator: upsertQuery                                            *)
(***************************************************************************)
\* column names used as keys of insertValues and updateValues
Keys == {"id", "uid", "name"}

\* values of insertValues: null, a plain value, a SequelizeMethod (fn, literal)
Values == {"null", "plain", "method"}

\* DmdbDialect.prototype.supports does not set EXCEPTION
supportsEXCEPTION == FALSE

\* model.rawAttributes: attribute key, column name (field), autoIncrement
RawAttributeSets ==
  { { [key |-> "id", field |-> "id", autoIncrement |-> TRUE],
      [key |-> "name", field |-> "name", autoIncrement |-> FALSE] },
    { [key |-> "userId", field |-> "uid", autoIncrement |-> TRUE],
      [key |-> "name", field |-> "name", autoIncrement |-> FALSE] },
    { [key |-> "id", field |-> "id", autoIncrement |-> FALSE],
      [key |-> "name", field |-> "name", autoIncrement |-> FALSE] } }

\* the keys of a JS object in insertion order: sequences without repetition
DistinctKeys(q) == \A i, j \in 1..Len(q) : i # j => q[i] # q[j]

DistinctEntries(q) == \A i, j \in 1..Len(q) : i # j => q[i].key # q[j].key

KeySeqs == { q \in UNION { [1..m -> Keys] : m \in 0..MaxFields } : DistinctKeys(q) }

HashSeqs ==
  { q \in UNION { [1..m -> [key : Keys, value : Values]] : m \in 1..MaxFields } :
      DistinctEntries(q) }

UpsertInputs ==
  [ rawAttributes : RawAttributeSets,
    insertValues  : HashSeqs,
    updateValues  : KeySeqs,
    bindParam     : {Undefined, "false"},   \* options.bindParam as passed
    searchPath    : BOOLEAN,                \* options.searchPath or dialectOptions.prependSearchPath
    exception     : BOOLEAN,                \* options.exception
    omitNull      : BOOLEAN ]               \* this.options.omitNull

\* Utils.removeNullValuesFromHash(hash, omitNull)
removeNullValuesFromHash(hash, omitNull) ==
  IF omitNull THEN SelectSeq(hash, LAMBDA e : e.value # "null") ELSE hash

\* quoteIdentifier(key): the name wrapped in the dialect's quote character
quoteIdentifier(key) == "\"" \o key \o "\""

\* modelAttributeMap[key]: attributes are registered under their key and their field
modelAttributeMap(rawAttributes, key) ==
  { a \in rawAttributes : a.key = key \/ a.field = key }

\* options.bindParam after lines 286-294
bindParamOption(in) ==
  IF in.searchPath \/ (supportsEXCEPTION /\ in.exception) THEN "false" ELSE in.bindParam

\* lines 297-312: fields, values, bind and identityInsert
upsertFields(ins) == [i \in 1..Len(ins) |-> quoteIdentifier(ins[i].key)]

identityInsertOf(rawAttributes, ins) ==
  \E i \in 1..Len(ins) :
    \E a \in modelAttributeMap(rawAttributes, ins[i].key) : a.autoIncrement = TRUE

\* line 306: options.bindParam as read when a value is rendered, after the
\* assignments of lines 288 and 293 (the constant bindParam of line 274 holds
\* the value from before them)
renderOptionMutant(in) == in.bindParam

renderOption(in) == bindParamOption(in)

\* whether value i is inlined by escape (TRUE) or bound by format (FALSE)
EscapedMutant(ins, bindOpt, i) == ins[i].value = "method"

Escaped(ins, bindOpt, i) == ins[i].value = "method" \/ bindOpt = "false"

\* number of values bound among the first i
BoundUpTo(ins, bindOpt, i) == Cardinality({ j \in 1..i : ~Escaped(ins, bindOpt, j) })

upsertValues(ins, bindOpt) ==
  [i \in 1..Len(ins) |->
     IF Escaped(ins, bindOpt, i)
       THEN [kind |-> "literal", of |-> ins[i].key, n |-> 0]
       ELSE [kind |-> "bind", of |-> ins[i].key, n |-> BoundUpTo(ins, bindOpt, i)]]

upsertBind(ins, bindOpt) ==
  LET bound == SelectSeq([i \in 1..Len(ins) |-> [i |-> i, e |-> ins[i]]],
                         LAMBDA x : ~Escaped(ins, bindOpt, x.i))
  IN [j \in 1..Len(bound) |-> bound[j].e]

\* lines 314-324: the candidate SELECT, one entry per projected column
selectQueryMutant(fields, values) ==
  LET cols == [i \in 1..Len(fields) |-> [expr |-> values[i], as |-> fields[i]]]
  IN IF Len(fields) > 0 /\ ~InSeq("\"id\"", fields)
       THEN <<[expr |-> [kind |-> "NULL", of |-> "", n |-> 0], as |-> "\"id\""]>> \o cols
       ELSE cols

selectQuery(fields, values) ==
  LET cols == [i \in 1..Len(fields) |-> [expr |-> values[i], as |-> fields[i]]]
  IN IF Len(fields) > 0 /\ fields[1] # "\"id\""
       THEN <<[expr |-> [kind |-> "NULL", of |-> "", n |-> 0], as |-> "\"id\""]>> \o cols
       ELSE cols

\* lines 326-339: the keys assigned by UPDATE SET, in order
SkipUpdateKey(identityInsert, keys, idx) ==
  (identityInsert /\ idx = 1) \/ keys[idx] = "id"

updateQuery(identityInsert, keys) ==
  LET kept == SelectSeq([i \in 1..Len(keys) |-> [i |-> i, key |-> keys[i]]],
                        LAMBDA x : ~SkipUpdateKey(identityInsert, keys, x.i))
  IN [j \in 1..Len(kept) |-> kept[j].key]

\* lines 341-368: the column list and the VALUES list of INSERT
SkipInsertField(identityInsert, idx) == identityInsert /\ idx = 1

insertQuery(identityInsert, fields) ==
  LET kept == SelectSeq([i \in 1..Len(fields) |-> [i |-> i, field |-> fields[i]]],
                        LAMBDA x : ~SkipInsertField(identityInsert, x.i))
  IN [ columns |-> [j \in 1..Len(kept) |-> kept[j].field],
       values  |-> [j \in 1..Len(kept) |-> "T2." \o kept[j].field] ]

upsertQuery(in) ==
  LET bindOpt == bindParamOption(in)
      ins == removeNullValuesFromHash(in.insertValues, in.omitNull)
      fields == upsertFields(ins)
      values == upsertValues(ins, renderOption(in))
      identityInsert == identityInsertOf(in.rawAttributes, ins)
  IN [ select    |-> selectQuery(fields, values),
       on        |-> <<"T1.\"id\"", "T2.\"id\"">>,
       update    |-> updateQuery(identityInsert, in.updateValues),
       insert    |-> insertQuery(identityInsert, fields),
       hasBind   |-> bindOpt # "false",
       bind      |-> IF bindOpt # "false" THEN upsertBind(ins, renderOption(in)) ELSE <<>>,
       bindParam |-> bindOpt ]

\* lines 288 and 293 assign to the options object of the caller
upsertOptions(in) == [in EXCEPT !.bindParam = bindParamOption(in)]

UpsertQuery ==
  /\ Len(upOut) < MaxCalls
  /\ upIn \in UpsertInputs
  /\ upOut' = Append(upOut, upsertQuery(upIn))
  /\ upIn' = upsertOptions(upIn)
  /\ UNCHANGED nonUpVars

NoUpsertInput == [none |-> TRUE]

IdleUpsert ==
  /\ upIn = NoUpsertInput
  /\ upOut = <<>>

(***************************************************************************)
(* Query generator: _checkValidJsonStatement and handleSequelizeMethod     *)
(*                                                                         *)
(* A statement is a sequence of characters.  "J" stands for a JSON         *)
(* function name accepted by jsonFunctionRegex (json, json_extract, ...),  *)
(* a run of word characters; "-" ">" spell the JSON operators -> and ->>;  *)
(* ">" alone is a character none of the three expressions accepts.         *)
(***************************************************************************)
Chars == {"J", " ", "(", ")", ";", "'", "-", ">"}

Statements == UNION { [1..n -> Chars] : n \in 1..MaxLen }

\* the number of leading whitespace characters, \s*
LeadingSpaces(s) ==
  CHOOSE k \in 0..Len(s) :
    /\ \A i \in 1..k : s[i] = " "
    /\ k = Len(s) \/ s[k + 1] # " "

\* position of the first ")" of s at or after i, 0 if none
FirstClosing(s, i) ==
  IF \E p \in i..Len(s) : s[p] = ")"
    THEN CHOOSE p \in i..Len(s) : s[p] = ")" /\ \A r \in i..(p - 1) : s[r] # ")"
    ELSE 0

\* jsonFunctionRegex.exec(s): whether \s* name \( [^)]* \) matches at the start
jsonFunctionMatches(s) ==
  LET k == LeadingSpaces(s)
  IN /\ Len(s) >= k + 3
     /\ s[k + 1] = "J"
     /\ s[k + 2] = "("
     /\ FirstClosing(s, k + 3) > 0

\* functionMatches[0].indexOf('('), counted in characters of the model
jsonFunctionParen(s) == LeadingSpaces(s) + 1

\* an operator match measured without the characters of a two-character
\* operator
jsonOperatorMatchMutant(s) ==
  LET k == LeadingSpaces(s)
  IN IF Len(s) >= k + 2 /\ s[k + 1] = "-" /\ s[k + 2] = ">"
       THEN IF Len(s) >= k + 3 /\ s[k + 3] = ">" THEN k + 3 ELSE k
       ELSE -1

\* jsonOperatorRegex.exec(s): length of the match \s*(->>?), -1 if none
jsonOperatorMatch(s) ==
  LET k == LeadingSpaces(s)
  IN IF Len(s) >= k + 2 /\ s[k + 1] = "-" /\ s[k + 2] = ">"
       THEN IF Len(s) >= k + 3 /\ s[k + 3] = ">" THEN k + 3 ELSE k + 2
       ELSE -1

\* the quoted alternative of tokenCaptureRegex from the opening quote at i:
\* position of the closing quote, 0 if the alternative fails.  The body takes
\* a non-quote character or a doubled quote, greedily; when the end is reached
\* without a closing quote the expression backtracks to the last doubled quote
\* and closes on its first character.
RECURSIVE QuotedEnd(_, _, _)
QuotedEnd(s, p, lastPair) ==
  IF p > Len(s) THEN lastPair
  ELSE IF s[p] # "'" THEN QuotedEnd(s, p + 1, lastPair)
  ELSE IF p + 1 <= Len(s) /\ s[p + 1] = "'" THEN QuotedEnd(s, p + 2, p)
  ELSE p

\* end of the run [\w\d\s]+ starting at i
WordRunEnd(s, i) ==
  CHOOSE e \in i..Len(s) :
    /\ \A r \in i..e : s[r] \in {"J", " "}
    /\ e = Len(s) \/ s[e + 1] \notin {"J", " "}

NoToken == [len |-> -1, token |-> ""]

\* tokenCaptureRegex.exec(s): length of the match and captured token.
\* When no alternative matches after the leading whitespace, \s* gives the
\* whitespace back and [\w\d\s]+ takes it.
tokenCapture(s) ==
  LET k == LeadingSpaces(s)
      spaces == IF k > 0 THEN [len |-> k, token |-> " "] ELSE NoToken
  IN IF k = Len(s) THEN spaces
     ELSE IF s[k + 1] = "'"
       THEN IF QuotedEnd(s, k + 2, 0) > 0
              THEN [len |-> QuotedEnd(s, k + 2, 0), token |-> "quoted"]
              ELSE spaces
     ELSE IF s[k + 1] = "J"
       THEN [len |-> WordRunEnd(s, k + 1), token |-> "word"]
     ELSE IF s[k + 1] \in {"(", ")", ";", "-"}
       THEN [len |-> k + 1, token |-> s[k + 1]]
     ELSE spaces

\* stmt.substr(currentIndex)
Substr(s, from) == SubSeq(s, from + 1, Len(s))

Remaining == Substr(jsStmt, currentIndex)

\* line 552: the loop condition
InLoop == jsPc = "scan" /\ currentIndex < Len(jsStmt)

\* lines 554-559
ScanFunction ==
  /\ InLoop
  /\ jsonFunctionMatches(Remaining)
  /\ currentIndex' = currentIndex + jsonFunctionParen(Remaining)
  /\ hasJsonFunction' = TRUE
  /\ functionCalls' = Append(functionCalls,
                             currentIndex + FirstClosing(Remaining, LeadingSpaces(Remaining) + 3))
  /\ UNCHANGED <<jsStmt, jsPc, openingBrackets, closingBrackets, hasInvalidToken, jsOut>>
  /\ UNCHANGED nonJsonVars

\* lines 561-566
ScanOperator ==
  /\ InLoop
  /\ ~jsonFunctionMatches(Remaining)
  /\ jsonOperatorMatch(Remaining) >= 0
  /\ currentIndex' = currentIndex + jsonOperatorMatch(Remaining)
  /\ hasJsonFunction' = TRUE
  /\ UNCHANGED <<jsStmt, jsPc, openingBrackets, closingBrackets, hasInvalidToken,
                 functionCalls, jsOut>>
  /\ UNCHANGED nonJsonVars

\* lines 568-581
ScanToken ==
  /\ InLoop
  /\ ~jsonFunctionMatches(Remaining)
  /\ jsonOperatorMatch(Remaining) < 0
  /\ tokenCapture(Remaining).len >= 0
  /\ LET t == tokenCapture(Remaining)
     IN /\ openingBrackets' = IF t.token = "(" THEN openingBrackets + 1 ELSE openingBrackets
        /\ closingBrackets' = IF t.token = ")" THEN closingBrackets + 1 ELSE closingBrackets
        /\ hasInvalidToken' = (t.token = ";")
        /\ currentIndex' = IF t.token = ";" THEN currentIndex ELSE currentIndex + t.len
        /\ jsPc' = IF t.token = ";" THEN "check" ELSE "scan"
  /\ UNCHANGED <<jsStmt, hasJsonFunction, functionCalls, jsOut>>
  /\ UNCHANGED nonJsonVars

\* line 583 and the exit of the loop at the end of the statement
ScanBreak ==
  /\ jsPc = "scan"
  /\ \/ currentIndex >= Len(jsStmt)
     \/ /\ ~jsonFunctionMatches(Remaining)
        /\ jsonOperatorMatch(Remaining) < 0
        /\ tokenCapture(Remaining).len < 0
  /\ jsPc' = "check"
  /\ UNCHANGED <<jsStmt, currentIndex, openingBrackets, closingBrackets,
                 hasJsonFunction, hasInvalidToken, functionCalls, jsOut>>
  /\ UNCHANGED nonJsonVars

\* lines 586-592: "throw" or the returned boolean
checkValidJsonStatement(hasFn, invalid, opening, closing) ==
  IF hasFn /\ (invalid \/ opening # closing) THEN "throw"
  ELSE IF hasFn THEN "true" ELSE "false"

\* lines 218-235 of handleSequelizeMethod, for a Utils.Json with a path
handleSequelizeMethod(path, hasValue, checked) ==
  IF checked = "throw"
    THEN [kind |-> "error", text |-> <<"Invalid json statement: ">> \o path, value |-> FALSE]
  ELSE IF checked = "true"
    THEN [kind |-> "sql", text |-> path, value |-> hasValue]
  ELSE [kind |-> "sql", text |-> <<"jsonPathExtractionQuery">>, value |-> hasValue]

HandleSequelizeMethod ==
  /\ jsPc = "check"
  /\ \E hasValue \in BOOLEAN :
       jsOut' = <<handleSequelizeMethod(jsStmt, hasValue,
                    checkValidJsonStatement(hasJsonFunction, hasInvalidToken,
                                            openingBrackets, closingBrackets))>>
  /\ jsPc' = "done"
  /\ UNCHANGED <<jsStmt, currentIndex, openingBrackets, closingBrackets,
                 hasJsonFunction, hasInvalidToken, functionCalls>>
  /\ UNCHANGED nonJsonVars

\* lines 546-550
ScanStart ==
  /\ currentIndex = 0
  /\ openingBrackets = 0
  /\ closingBrackets = 0
  /\ hasJsonFunction = FALSE
  /\ hasInvalidToken = FALSE
  /\ functionCalls = <<>>
  /\ jsOut = <<>>

IdleJson ==
  /\ jsStmt = <<>>
  /\ jsPc = None
  /\ ScanStart

(***************************************************************************)
(* Request validation in sequelize.query (the caller of the dialect):      *)
(* a request carries replacements, bind values, both or neither            *)
(***************************************************************************)
Requests == [replacements : BOOLEAN, bind : BOOLEAN]

\* the message text, written without its backquotes
BothMessage == "Both replacements and bind cannot be set at the same time"

\* the construction check: <<>> when the request is well formed
validateRequestMutant(req) == <<>>

validateRequest(req) ==
  IF req.replacements /\ req.bind THEN <<BothMessage>> ELSE <<>>

\* sequelize.query(sql, options) up to the acquisition of a connection
Query ==
  /\ rqPc = "new"
  /\ rqError' = validateRequest(rqIn)
  /\ rqPc' = IF validateRequest(rqIn) # <<>> THEN "rejected" ELSE "validated"
  /\ UNCHANGED <<rqIn, rqCount, acquired, emitted>>
  /\ UNCHANGED nonRqVars

\* the connection manager hands a connection to the validated request
AcquireConnection ==
  /\ rqPc = "validated"
  /\ acquired' = acquired + 1
  /\ rqPc' = "acquired"
  /\ UNCHANGED <<rqIn, rqCount, rqError, emitted>>
  /\ UNCHANGED nonRqVars

\* the statement is handed to the driver
Execute ==
  /\ rqPc = "acquired"
  /\ emitted' = emitted + 1
  /\ rqPc' = "sent"
  /\ UNCHANGED <<rqIn, rqCount, rqError, acquired>>
  /\ UNCHANGED nonRqVars

\* the driver completes the statement
Complete ==
  /\ rqPc = "sent"
  /\ rqPc' = "done"
  /\ UNCHANGED <<rqIn, rqCount, rqError, acquired, emitted>>
  /\ UNCHANGED nonRqVars

\* the caller issues its next request
NextRequest ==
  /\ rqPc \in {"rejected", "done"}
  /\ rqCount < MaxRequests
  /\ rqIn' \in Requests
  /\ rqCount' = rqCount + 1
  /\ rqError' = <<>>
  /\ rqPc' = "new"
  /\ UNCHANGED <<acquired, emitted>>
  /\ UNCHANGED nonRqVars

IdleRequest ==
  /\ rqIn = [replacements |-> FALSE, bind |-> FALSE]
  /\ rqPc = None
  /\ rqCount = 0
  /\ rqError = <<>>
  /\ acquired = 0
  /\ emitted = 0

(***************************************************************************)
(* Query.formatError                                                       *)
(***************************************************************************)
\* identifiers bound in the module scope of query.js; formatError's own
\* scope adds err, errCode, match, fields, ...
DeclaredIdentifiers ==
  {"Utils", "AbstractQuery", "sequelizeErrors", "_", "logger", "debug", "Query"}

\* err.errno and err.code: a driver error number, 0 when the property is absent
ErrorNumbers == {0, 1062, 1213, 1451, 1452}

\* characters of the offending entry in a duplicate-key message
EntryChars == {"j", "7", "-", "\r"}

Entries == UNION { [1..n -> EntryChars] : n \in 0..MaxEntry }

\* the key named by a duplicate-key message, split at its dots
KeyTexts == { <<"num">>, <<"name_secret">>, <<"users", "name_secret">> }

\* err.message: "Duplicate entry '<entry>' for key '<key>'", a foreign-key
\* message "... CONSTRAINT q<index>q FOREIGN KEY (q<fields>q) REFERENCES
\* q<table>q (q<id>q)" with quote character q, or any other text
Messages ==
  [kind : {"dup"}, entry : Entries, key : KeyTexts, quote : {"'"},
   index : {""}, fields : {<<>>}, table : {""}]
  \cup
  [kind : {"fk"}, entry : {<<>>}, key : {<<>>}, quote : {"backquote", "doublequote"},
   index : {"brothers_ibfk_1"}, fields : {<<"personId">>, <<"personId", "groupId">>},
   table : {"people"}]
  \cup
  [kind : {"other"}, entry : {<<>>}, key : {<<>>}, quote : {""},
   index : {""}, fields : {<<>>}, table : {""}]

\* this.model: absent, or a model with the unique key name_secret
FormatErrorInputs ==
  [errno : ErrorNumbers, code : ErrorNumbers, message : Messages, hasModel : BOOLEAN]

\* line 210: err.errno || err.code
errCodeOf(err) == IF err.errno # 0 THEN err.errno ELSE err.code

ReferenceError(name) ==
  [type |-> "ReferenceError", thrown |-> TRUE, name |-> name, parent |-> <<>>,
   fields |-> <<>>, reltype |-> "", table |-> "", fkFields |-> <<>>, index |-> ""]

\* lines 209-251: the switch compares errCode with its case labels in order.
\* The first label, ER_DUP_ENTRY, is bound nowhere in query.js, so reading it
\* throws before any case body runs.  ER_ROW_IS_REFERENCED,
\* ER_NO_REFERENCED_ROW and errStack are unbound as well.
formatError(err) ==
  IF "ER_DUP_ENTRY" \notin DeclaredIdentifiers
    THEN ReferenceError("ER_DUP_ENTRY")
    ELSE ReferenceError("errStack")

FormatError ==
  /\ feOut = <<>>
  /\ feIn \in FormatErrorInputs
  /\ feOut' = <<formatError(feIn)>>
  /\ UNCHANGED feIn
  /\ UNCHANGED nonFeVars

IdleFormatError ==
  /\ feIn = [none |-> TRUE]
  /\ feOut = <<>>

(***************************************************************************)
(* Query generator: createTableQuery                                       *)
(*                                                                         *)
(* A rendered type clause (the dataType string of an attribute) is a       *)
(* sequence of the parts attributeToSQL joins with spaces.  A part is a    *)
(* keyword, or a DEFAULT with its escaped literal; the text of a literal   *)
(* is the column's default value and may itself read PRIMARY KEY.          *)
(***************************************************************************)
PrimaryKeyWord == "PRIMARY KEY"
ReferencesPart == "REFERENCES \"people\" (\"id\")"
DefaultPrimaryKeyText == "DEFAULT 'PRIMARY KEY'"
\* default literals that read REFERENCES: one with the word right after the
\* quote, one with the word after a space
DefaultReferencesText == "DEFAULT 'REFERENCES'"
DefaultSpacedReferencesText == "DEFAULT 'x REFERENCES y'"

TypeClauses ==
  { <<"INTEGER">>,
    <<"INTEGER", "auto_increment", PrimaryKeyWord>>,
    <<"VARCHAR(255)", PrimaryKeyWord>>,
    <<"INTEGER", ReferencesPart>>,
    <<"INTEGER", PrimaryKeyWord, ReferencesPart>>,
    <<"JSON">>,
    <<"VARCHAR(255)", "DEFAULT 'x'">>,
    <<"VARCHAR(255)", DefaultPrimaryKeyText>>,
    <<"VARCHAR(255)", DefaultPrimaryKeyText, PrimaryKeyWord>>,
    <<"INTEGER", ReferencesPart, "ON DELETE CASCADE">>,
    <<"VARCHAR(255)", DefaultSpacedReferencesText, ReferencesPart>>,
    <<"VARCHAR(255)", DefaultSpacedReferencesText>>,
    <<"VARCHAR(255)", DefaultReferencesText>> }

ColumnNames == {"id", "name", "personId"}

\* attributes: attribute names in insertion order, each with its type clause
AttributeNameSeqs ==
  { q \in UNION { [1..m -> ColumnNames] : m \in 1..MaxColumns } :
      \A i, j \in 1..Len(q) : i # j => q[i] # q[j] }

AttributeSeqs ==
  UNION { { [i \in 1..Len(names) |-> [attr |-> names[i], dataType |-> types[i]]] :
              types \in [1..Len(names) -> TypeClauses] } : names \in AttributeNameSeqs }

\* options.uniqueKeys: none, a named custom index, an unnamed custom index
\* (array entry), a key that is not a custom index
UniqueKeySeqs ==
  { <<>>,
    <<[indexName |-> "uk_name", named |-> TRUE, fields |-> <<"name">>, customIndex |-> TRUE]>>,
    <<[indexName |-> "0", named |-> FALSE, fields |-> <<"id", "name">>, customIndex |-> TRUE]>>,
    <<[indexName |-> "uk_name", named |-> TRUE, fields |-> <<"name">>, customIndex |-> FALSE]>> }

CreateTableInputs ==
  [tableName : {"users"}, attributes : AttributeSeqs, uniqueKeys : UniqueKeySeqs,
   initialAutoIncrement : {0, 100}]

\* part.includes(word) for the words createTableQuery looks for
PartIncludes(part, word) ==
  \/ part = word
  \/ word = PrimaryKeyWord /\ part = DefaultPrimaryKeyText
  \/ word = "REFERENCES"
       /\ part \in {ReferencesPart, DefaultReferencesText, DefaultSpacedReferencesText}
  \/ word = "JSON" /\ part = "JSON"

\* dataType.includes(word)
Includes(dataType, word) == \E i \in 1..Len(dataType) : PartIncludes(dataType[i], word)

FirstIncluding(dataType, word) ==
  CHOOSE i \in 1..Len(dataType) :
    PartIncludes(dataType[i], word) /\ \A r \in 1..(i - 1) : ~PartIncludes(dataType[r], word)

RemoveAt(q, i) == SubSeq(q, 1, i - 1) \o SubSeq(q, i + 1, Len(q))

\* text.replace('PRIMARY KEY', ''): the first occurrence only
ReplacePrimaryKey(dataType) ==
  IF ~Includes(dataType, PrimaryKeyWord) THEN dataType
  ELSE LET i == FirstIncluding(dataType, PrimaryKeyWord)
       IN IF dataType[i] = PrimaryKeyWord
            THEN RemoveAt(dataType, i)
            ELSE [dataType EXCEPT ![i] = "DEFAULT ''"]

\* dataType.match(/^(.+) (REFERENCES.*)$/): the word must follow a space
\* that follows at least one character; a part after the first follows the
\* space that joins the parts
MatchesAt(dataType, i) ==
  \/ i > 1 /\ dataType[i] = ReferencesPart
  \/ dataType[i] = DefaultSpacedReferencesText

\* whether match is an array rather than null
Matches(dataType) == \E i \in 1..Len(dataType) : MatchesAt(dataType, i)

\* (.+) is greedy: the split is at the first occurrence scanned from the end
LastReferencesMutant(dataType) ==
  CHOOSE i \in 1..Len(dataType) :
    MatchesAt(dataType, i) /\ \A r \in 1..(i - 1) : ~MatchesAt(dataType, r)

\* (.+) is greedy: the split is at the last occurrence
LastReferences(dataType) ==
  CHOOSE i \in 1..Len(dataType) :
    MatchesAt(dataType, i) /\ \A r \in (i + 1)..Len(dataType) : ~MatchesAt(dataType, r)

\* match[1]
MatchBefore(dataType) ==
  LET i == LastReferences(dataType)
  IN SubSeq(dataType, 1, i - 1)
       \o (IF dataType[i] = DefaultSpacedReferencesText THEN <<"DEFAULT 'x">> ELSE <<>>)

\* match[2]
MatchReferences(dataType) ==
  LET i == LastReferences(dataType)
  IN (IF dataType[i] = DefaultSpacedReferencesText THEN <<"REFERENCES y'">> ELSE <<dataType[i]>>)
       \o SubSeq(dataType, i + 1, Len(dataType))

\* lines 86 and 93: match[1] of a null match throws a TypeError
createTableThrows(attributes) ==
  \E i \in 1..Len(attributes) :
    Includes(attributes[i].dataType, "REFERENCES") /\ ~Matches(attributes[i].dataType)

\* quoteTable / quoteIdentifier of a table name
quoteTable(tableName) == quoteIdentifier(tableName)

Clause(kind, name, body) == [kind |-> kind, name |-> name, body |-> body]

\* lines 76-102: the column definition pushed on attrStr for one attribute
columnDefinition(a) ==
  IF Includes(a.dataType, PrimaryKeyWord)
    THEN IF Includes(a.dataType, "REFERENCES")
           THEN Clause("column", quoteIdentifier(a.attr), ReplacePrimaryKey(MatchBefore(a.dataType)))
           ELSE Clause("column", quoteIdentifier(a.attr), ReplacePrimaryKey(a.dataType))
  ELSE IF Includes(a.dataType, "REFERENCES")
    THEN Clause("column", quoteIdentifier(a.attr), MatchBefore(a.dataType))
  ELSE IF Includes(a.dataType, "JSON")
    THEN Clause("column", quoteIdentifier(a.attr),
                a.dataType \o <<"CHECK (" \o quoteIdentifier(a.attr) \o " IS JSON(LAX))">>)
  ELSE Clause("column", quoteIdentifier(a.attr), a.dataType)

\* lines 81-82: primaryKeys, in attribute order
primaryKeys(attributes) ==
  LET pk == SelectSeq(attributes, LAMBDA a : Includes(a.dataType, PrimaryKeyWord))
  IN [i \in 1..Len(pk) |-> pk[i].attr]

\* lines 84-96: foreignKeys, in attribute order
foreignKeys(attributes) ==
  LET fk == SelectSeq(attributes, LAMBDA a : Includes(a.dataType, "REFERENCES"))
  IN [i \in 1..Len(fk) |-> [attr |-> fk[i].attr, references |-> MatchReferences(fk[i].dataType)]]

\* lines 109-118
uniqueClauses(tableName, uniqueKeys) ==
  LET custom == SelectSeq(uniqueKeys, LAMBDA u : u.customIndex)
      JoinFields(fields) == IF Len(fields) = 1 THEN fields[1] ELSE fields[1] \o "_" \o fields[2]
  IN [i \in 1..Len(custom) |->
        Clause("unique",
               quoteIdentifier(IF custom[i].named THEN custom[i].indexName
                               ELSE "uniq_" \o tableName \o "_" \o JoinFields(custom[i].fields)),
               [j \in 1..Len(custom[i].fields) |-> quoteIdentifier(custom[i].fields[j])])]

\* lines 66-131: the clauses between the parentheses, in the order they are
\* appended to attributesClause, and the AUTO_INCREMENT suffix; thrown holds
\* the error when the loop over the attributes throws
createTableQuery(in) ==
  IF createTableThrows(in.attributes)
    THEN [ table |-> "", clauses |-> <<>>, initialAutoIncrement |-> <<>>,
           thrown |-> <<"TypeError">> ]
    ELSE
      LET pks == primaryKeys(in.attributes)
          fks == foreignKeys(in.attributes)
      IN [ table   |-> quoteTable(in.tableName),
           clauses |-> [i \in 1..Len(in.attributes) |-> columnDefinition(in.attributes[i])]
                       \o uniqueClauses(in.tableName, in.uniqueKeys)
                       \o (IF Len(pks) > 0
                             THEN <<Clause("primary", "", [i \in 1..Len(pks) |-> quoteIdentifier(pks[i])])>>
                             ELSE <<>>)
                       \o [i \in 1..Len(fks) |->
                             Clause("foreign", quoteIdentifier(fks[i].attr), fks[i].references)],
           initialAutoIncrement |-> IF in.initialAutoIncrement # 0
                                      THEN <<in.initialAutoIncrement>> ELSE <<>>,
           thrown |-> <<>> ]

\* options is copied by Object.assign; attributes is only read
CreateTableQuery ==
  /\ Len(ctOut) < MaxCalls
  /\ ctIn \in CreateTableInputs
  /\ ctOut' = Append(ctOut, createTableQuery(ctIn))
  /\ UNCHANGED ctIn
  /\ UNCHANGED nonCtVars

IdleCreateTable ==
  /\ ctIn = [none |-> TRUE]
  /\ ctOut = <<>>

(***************************************************************************)
(* Query generator: attributeToSQL and deleteQuery                         *)
(***************************************************************************)
\* attribute.type: the data type by its key, the subtype of a GEOMETRY, and
\* type._binary
AttributeTypes ==
  { [key |-> "INTEGER", subtype |-> "", binary |-> FALSE],
    [key |-> "STRING", subtype |-> "", binary |-> FALSE],
    [key |-> "STRING", subtype |-> "", binary |-> TRUE],
    [key |-> "BOOLEAN", subtype |-> "", binary |-> FALSE],
    [key |-> "TEXT", subtype |-> "", binary |-> FALSE],
    [key |-> "BLOB", subtype |-> "", binary |-> FALSE],
    [key |-> "JSON", subtype |-> "", binary |-> FALSE],
    [key |-> "GEOMETRY", subtype |-> "", binary |-> FALSE],
    [key |-> "GEOMETRY", subtype |-> "POINT", binary |-> FALSE] }

\* type.toString(): toSql() of the dialect's types; a GEOMETRY renders its
\* sqlType, which is the subtype when one is given
toSql(type) ==
  IF type.key = "GEOMETRY" THEN (IF type.subtype = "" THEN type.key ELSE type.subtype)
  ELSE IF type.key = "JSON" THEN "TEXT"
  ELSE IF type.key = "BOOLEAN" THEN "BIT"
  ELSE IF type.key = "STRING"
    THEN IF type.binary THEN "VARCHAR(255) BINARY" ELSE "VARCHAR(255)"
  ELSE type.key

\* attribute.defaultValue: absent, a boolean, a number, a string, or a
\* function such as NOW
NoDefault == [kind |-> "undefined", text |-> ""]

DefaultValues ==
  { NoDefault,
    [kind |-> "boolean", text |-> "true"],
    [kind |-> "boolean", text |-> "false"],
    [kind |-> "number", text |-> "1"],
    [kind |-> "string", text |-> "x"],
    [kind |-> "string", text |-> "PRIMARY KEY"],
    [kind |-> "function", text |-> "NOW"] }

\* attribute.references with onDelete and onUpdate; model "" when absent,
\* key "" when references.key is absent
NoReferences == [model |-> "", key |-> "", onDelete |-> "", onUpdate |-> ""]

References ==
  {NoReferences} \cup
  [model : {"people"}, key : {"", "pid"}, onDelete : {"", "cascade"}, onUpdate : {"", "cascade"}]

\* a bare type given in place of a plain object carries the type only
Attributes ==
  [ plain : {TRUE}, type : AttributeTypes, allowNull : BOOLEAN, autoIncrement : BOOLEAN,
    defaultValue : DefaultValues, unique : BOOLEAN, primaryKey : BOOLEAN,
    comment : {"", "c"}, first : BOOLEAN, after : {"", "id"}, references : References ]
  \cup
  [ plain : {FALSE}, type : AttributeTypes, allowNull : {TRUE}, autoIncrement : {FALSE},
    defaultValue : {NoDefault}, unique : {FALSE}, primaryKey : {FALSE},
    comment : {""}, first : {FALSE}, after : {""}, references : {NoReferences} ]

\* options: absent, or the addColumn context with foreignKey and tableName
AttributeOptions ==
  { [context |-> "", foreignKey |-> "", tableName |-> ""],
    [context |-> "addColumn", foreignKey |-> "personId", tableName |-> "users"] }

AttributeInputs == [attribute : Attributes, options : AttributeOptions]

typeWithoutDefault == {"BLOB", "TEXT", "GEOMETRY", "JSON"}

\* Utils.defaultValueSchemable(value)
defaultValueSchemable(value) == value.kind \notin {"undefined", "function"}

\* this.escape(value): a number or boolean as it reads, a string in quotes
escape(value) ==
  IF value.kind = "string" THEN "'" \o value.text \o "'" ELSE value.text

\* lines 465-467: whether the DEFAULT branch is entered
rendersDefault(attribute) ==
  /\ toSql(attribute.type) \notin typeWithoutDefault
  /\ attribute.type.binary # TRUE
  /\ defaultValueSchemable(attribute.defaultValue)

\* lines 469-471: attribute.defaultValue after the call
defaultValueAfter(attribute) ==
  IF /\ rendersDefault(attribute)
     /\ toSql(attribute.type) = "BIT"
     /\ attribute.defaultValue.kind = "boolean"
    THEN [kind |-> "number",
          text |-> IF attribute.defaultValue.text = "true" THEN "1" ELSE "0"]
    ELSE attribute.defaultValue

If(cond, part) == IF cond THEN <<part>> ELSE <<>>

\* lines 494-518
referencesSQL(attribute, options) ==
  LET r == attribute.references
  IN IF r.model = "" THEN <<>>
     ELSE If(options.context = "addColumn" /\ options.foreignKey # "",
             ", ADD CONSTRAINT "
               \o quoteIdentifier(options.tableName \o "_" \o quoteIdentifier(options.foreignKey)
                                    \o "_foreign_idx")
               \o " FOREIGN KEY (" \o quoteIdentifier(options.foreignKey) \o ")")
          \o <<"REFERENCES " \o quoteTable(r.model) \o " ("
                 \o quoteIdentifier(IF r.key # "" THEN r.key ELSE "id") \o ")">>
          \o If(r.onDelete # "", "ON DELETE CASCADE")
          \o If(r.onUpdate # "", "ON UPDATE CASCADE")

\* lines 445-520: the parts of the template, joined by spaces in the code
attributeToSQL(attribute, options) ==
  <<toSql(attribute.type)>>
    \o If(attribute.plain /\ attribute.allowNull = FALSE, "NOT NULL")
    \o If(attribute.autoIncrement, "auto_increment")
    \o If(rendersDefault(attribute), "DEFAULT " \o escape(defaultValueAfter(attribute)))
    \o If(attribute.unique = TRUE, "UNIQUE")
    \o If(attribute.primaryKey, PrimaryKeyWord)
    \o If(attribute.comment # "", "COMMENT " \o escape([kind |-> "string", text |-> attribute.comment]))
    \o If(attribute.first, "FIRST")
    \o If(attribute.after # "", "AFTER " \o quoteIdentifier(attribute.after))
    \o referencesSQL(attribute, options)

\* the attribute object of the caller after the call: a plain object is
\* used as it is, a bare type is wrapped in a new object
attributeAfter(attribute) ==
  IF attribute.plain
    THEN [attribute EXCEPT !.defaultValue = defaultValueAfter(attribute)]
    ELSE attribute

AttributeToSQL ==
  /\ Len(atOut) < MaxCalls
  /\ atIn \in AttributeInputs
  /\ atOut' = Append(atOut, attributeToSQL(atIn.attribute, atIn.options))
  /\ atIn' = [atIn EXCEPT !.attribute = attributeAfter(atIn.attribute)]
  /\ UNCHANGED <<dqIn, dqOut>>
  /\ UNCHANGED nonAtVars

\* deleteQuery(tableName, where, options): where is absent or one comparison
\* leaf, options.limit absent (0) or a number
DeleteInputs ==
  [ tableName : {"users"},
    where : { <<>>, <<[column |-> "name", value |-> [kind |-> "string", text |-> "x"]]>> },
    limit : {0, 1, 2} ]

\* this.getWhereConditions(where, null, model, options): the comparison leaf
\* rendered as quoted column, operator, literal
getWhereConditions(where) ==
  IF where = <<>> THEN ""
  ELSE quoteIdentifier(where[1].column) \o " = " \o escape(where[1].value)

\* lines 387-402
deleteQuery(in) ==
  <<"DELETE FROM " \o quoteTable(in.tableName)>>
    \o If(getWhereConditions(in.where) # "", "WHERE " \o getWhereConditions(in.where))
    \o If(in.limit # 0, "LIMIT " \o escape([kind |-> "number", text |-> ToString(in.limit)]))

DeleteQuery ==
  /\ Len(dqOut) < MaxCalls
  /\ dqIn \in DeleteInputs
  /\ dqOut' = Append(dqOut, deleteQuery(dqIn))
  /\ UNCHANGED <<dqIn, atIn, atOut>>
  /\ UNCHANGED nonAtVars

IdleAttribute ==
  /\ atIn = [none |-> TRUE]
  /\ atOut = <<>>
  /\ dqIn = [none |-> TRUE]
  /\ dqOut = <<>>

(***************************************************************************)
(* Query.run, Query.formatResults and Query.logWarnings                    *)
(*                                                                         *)
(* run returns P0.then(warnings).then(formatResults), where P0 is settled  *)
(* by the completion callback the driver is given.  logWarnings calls run  *)
(* again on the same Query object, so the calls in progress form a stack   *)
(* of frames; the top frame is the one whose statement or callback is      *)
(* pending.                                                                *)
(***************************************************************************)
\* this.options.type
QueryTypes ==
  {"SELECT", "INSERT", "UPDATE", "BULKUPDATE", "BULKDELETE", "DELETE", "UPSERT",
   "VERSION", "SHOWTABLES", "SHOWINDEXES", "DESCRIBE", "RAW", "FOREIGNKEYS",
   "SHOWCONSTRAINTS"}

\* the Query object and the arguments of run: options.type, showWarnings,
\* options.transaction, this.instance, a model whose auto-increment attribute
\* is its primary key, parameters, and whether the text holds ' = true'
RunInputs ==
  { in \in [ type : QueryTypes, showWarnings : BOOLEAN, transaction : BOOLEAN,
             instance : BOOLEAN, autoIncrementPk : BOOLEAN, parameters : BOOLEAN,
             booleanLiteral : BOOLEAN ] :
      in.booleanLiteral => in.type = "SELECT" }

\* what the handler resolves P0 with, results.rows || results.resultSet ||
\* results: the row array when the driver result has one, else the result
\* header.  A row array has no affectedRows, insertId or warningStatus (-1).
InsertId == 5

HeaderResults ==
  [ shape : {"header"}, ctor : {"ResultSetHeader", "Object"}, affectedRows : 0..MaxRows,
    insertId : {InsertId}, warningStatus : {0, 1}, rows : {<<>>} ]

RowResults ==
  [ shape : {"rows"}, ctor : {"Array"}, affectedRows : {-1}, insertId : {-1},
    warningStatus : {-1}, rows : { [i \in 1..n |-> i] : n \in 0..MaxRows } ]

NoData ==
  [shape |-> "none", ctor |-> "", affectedRows |-> -1, insertId |-> -1,
   warningStatus |-> -1, rows |-> <<>>]

\* statements whose driver result carries rows
RowTypes ==
  {"SELECT", "VERSION", "SHOWTABLES", "SHOWINDEXES", "DESCRIBE", "FOREIGNKEYS",
   "SHOWCONSTRAINTS"}

\* the results the driver may complete a statement with
DriverResults(sql, type) ==
  IF sql = "SHOW WARNINGS" \/ type = "RAW" THEN HeaderResults \cup RowResults
  ELSE IF type \in RowTypes THEN RowResults
  ELSE HeaderResults

\* the errors the driver may complete a statement with
RunErrors ==
  { e \in FormatErrorInputs : e.code = 0 /\ e.message.kind = "other" /\ ~e.hasModel }

\* the value of the variable result of formatResults
NoResult == [kind |-> "undefined", ids |-> <<>>]

\* a value formatResults returns
Value(kind, result, count, rows) ==
  [kind |-> kind, result |-> result, count |-> count, rows |-> rows]

NoValue == Value("none", NoResult, -1, <<>>)

\* lines 105-127: result after the insert branch
insertResult(in, data) ==
  IF in.instance THEN [kind |-> "instance", ids |-> <<>>]
  ELSE IF in.type # "INSERT" THEN NoResult
  ELSE IF data.ctor = "ResultSetHeader" /\ in.autoIncrementPk
    THEN [kind |-> "ids", ids |-> [i \in 1..data.affectedRows |-> data.insertId + i - 1]]
  ELSE [kind |-> "insertId", ids |-> <<data.insertId>>]

\* lines 104-184
formatResultsMutant(in, data) ==
  LET result == insertResult(in, data)
  IN CASE in.type = "SELECT"      -> Value("select", NoResult, -1, data.rows)
       [] in.type = "SHOWTABLES"  -> Value("tables", NoResult, -1, data.rows)
       [] in.type = "DESCRIBE"    -> Value("describe", NoResult, -1, data.rows)
       [] in.type = "SHOWINDEXES" -> Value("indexes", NoResult, -1, data.rows)
       [] in.type \in {"BULKUPDATE", "BULKDELETE"}
                                  -> Value("count", NoResult, data.affectedRows, <<>>)
       [] in.type = "VERSION"     -> Value("version", NoResult, -1, data.rows)
       [] in.type = "FOREIGNKEYS" -> Value(data.shape, NoResult, data.affectedRows, data.rows)
       [] in.type \in {"INSERT", "UPDATE", "UPSERT"}
                                  -> Value("pair", result, data.affectedRows, <<>>)
       [] in.type \in {"SHOWCONSTRAINTS", "RAW"}
                                  -> Value(data.shape, NoResult, data.affectedRows, data.rows)
       [] OTHER                   -> Value("result", result, -1, <<>>)

formatResults(in, data) ==
  LET result == insertResult(in, data)
  IN CASE in.type = "SELECT"      -> Value("select", NoResult, -1, data.rows)
       [] in.type = "SHOWTABLES"  -> Value("tables", NoResult, -1, data.rows)
       [] in.type = "DESCRIBE"    -> Value("describe", NoResult, -1, data.rows)
       [] in.type = "SHOWINDEXES" -> Value("indexes", NoResult, -1, data.rows)
       [] in.type \in {"BULKUPDATE", "BULKDELETE", "UPSERT"}
                                  -> Value("count", NoResult, data.affectedRows, <<>>)
       [] in.type = "VERSION"     -> Value("version", NoResult, -1, data.rows)
       [] in.type = "FOREIGNKEYS" -> Value(data.shape, NoResult, data.affectedRows, data.rows)
       [] in.type \in {"INSERT", "UPDATE"}
                                  -> Value("pair", result, data.affectedRows, <<>>)
       [] in.type \in {"SHOWCONSTRAINTS", "RAW"}
                                  -> Value(data.shape, NoResult, data.affectedRows, data.rows)
       [] OTHER                   -> Value("result", result, -1, <<>>)

\* lines 190-202: the loops of logWarnings throw a TypeError unless the
\* formatted warnings are an array of rows or of scalars
\* (their entries are skipped as not iterable); the pair of an insert holds
\* the synthesized ids, an array of objects that have no keys method
logWarningsThrows(value) ==
  \/ value.kind \notin {"select", "tables", "indexes", "rows", "pair"}
  \/ value.kind = "pair" /\ value.result.kind = "ids" /\ value.result.ids # <<>>

Outcome(state, value, error) == [state |-> state, value |-> value, error |-> error]

Frame(sql, pc, data, out) == [sql |-> sql, pc |-> pc, data |-> data, out |-> out]

Top == runStack[Len(runStack)]

SetTop(frame) == [runStack EXCEPT ![Len(runStack)] = frame]

Event(ev, sql) == [ev |-> ev, sql |-> sql, errno |-> 0]

\* the handler was called with err
ErrorEvent(sql, err) == [ev |-> "error", sql |-> sql, errno |-> err.errno]

\* lines 36-38 and 69-74: the statement handed to connection.execute
Issued(sql, in) ==
  [ sql |-> sql,
    rewritten |-> (sql = "main" /\ in.type = "SELECT" /\ in.booleanLiteral),
    parameters |-> (sql = "main" /\ in.parameters) ]

\* lines 34-76: run up to the call of connection.execute
Run ==
  /\ runLog = <<>>
  /\ runIn \in RunInputs
  /\ runStack' = <<Frame("main", "executing", NoData, <<>>)>>
  /\ runIssued' = Append(runIssued, Issued("main", runIn))
  /\ runLog' = Append(runLog, Event("execute", "main"))
  /\ UNCHANGED <<runIn, runTx, runThrown, runResult>>
  /\ UNCHANGED nonRunVars

\* lines 54-55, 66-67: the driver calls the handler without an error
ExecuteSucceeds ==
  /\ runStack # <<>>
  /\ Top.pc = "executing"
  /\ \E results \in DriverResults(Top.sql, runIn.type) :
       runStack' = SetTop(Frame(Top.sql, "resolved", results, <<>>))
  /\ runLog' = Append(runLog, Event("ok", Top.sql))
  /\ UNCHANGED <<runIn, runTx, runThrown, runIssued, runResult>>
  /\ UNCHANGED nonRunVars

\* lines 54-65: the driver calls the handler with an error.  formatError is
\* evaluated inside the handler before reject is called: when it throws, the
\* exception leaves the handler and P0 is never settled
ExecuteFails ==
  /\ runStack # <<>>
  /\ Top.pc = "executing"
  /\ \E err \in RunErrors :
       /\ runLog' = Append(runLog, ErrorEvent(Top.sql, err))
       /\ runTx' = IF runIn.transaction /\ err.errno = 1213 THEN "rollback" ELSE runTx
       /\ IF formatError(err).thrown
            THEN /\ runThrown' = Append(runThrown, formatError(err))
                 /\ runStack' = SetTop(Frame(Top.sql, "hung", NoData, <<>>))
            ELSE /\ runThrown' = runThrown
                 /\ runStack' = SetTop(Frame(Top.sql, "done", NoData,
                                   <<Outcome("rejected", NoValue, formatError(err).type)>>))
  /\ UNCHANGED <<runIn, runIssued, runResult>>
  /\ UNCHANGED nonRunVars

\* lines 77-82: the first then; logWarnings starts run('SHOW WARNINGS').
\* The nesting of run inside logWarnings is followed for MaxDepth frames: a
\* statement issued below them is recorded and its frame is left at "deeper"
NeedsWarnings == runIn.showWarnings /\ Top.data.warningStatus > 0

ThenWarnings ==
  /\ runStack # <<>>
  /\ Top.pc = "resolved"
  /\ IF NeedsWarnings
       THEN /\ runStack' =
                 IF Len(runStack) < MaxDepth
                   THEN Append(SetTop(Frame(Top.sql, "logWarnings", Top.data, <<>>)),
                               Frame("SHOW WARNINGS", "executing", NoData, <<>>))
                   ELSE SetTop(Frame(Top.sql, "deeper", Top.data, <<>>))
            /\ runIssued' = Append(runIssued, Issued("SHOW WARNINGS", runIn))
            /\ runLog' = Append(runLog, Event("execute", "SHOW WARNINGS"))
       ELSE /\ runStack' = SetTop(Frame(Top.sql, "format", Top.data, <<>>))
            /\ UNCHANGED <<runIssued, runLog>>
  /\ UNCHANGED <<runIn, runTx, runThrown, runResult>>
  /\ UNCHANGED nonRunVars

\* lines 187-206: the inner run has settled; the then of logWarnings reads
\* the warnings and returns the results it was called with
WarningsFetched ==
  /\ Len(runStack) >= 2
  /\ Top.pc = "done"
  /\ LET inner == Top.out[1]
         outer == runStack[Len(runStack) - 1]
         rest == SubSeq(runStack, 1, Len(runStack) - 2)
     IN runStack' =
          IF inner.state = "rejected"
            THEN Append(rest, Frame(outer.sql, "done", outer.data, <<inner>>))
          ELSE IF logWarningsThrows(inner.value)
            THEN Append(rest, Frame(outer.sql, "done", outer.data,
                                    <<Outcome("rejected", NoValue, "TypeError")>>))
          ELSE Append(rest, Frame(outer.sql, "format", outer.data, <<>>))
  /\ runLog' = Append(runLog, Event("warnings", Top.sql))
  /\ UNCHANGED <<runIn, runTx, runThrown, runIssued, runResult>>
  /\ UNCHANGED nonRunVars

\* lines 83-84: the second then
ThenFormatResults ==
  /\ runStack # <<>>
  /\ Top.pc = "format"
  /\ runStack' = SetTop(Frame(Top.sql, "done", Top.data,
                              <<Outcome("resolved", formatResults(runIn, Top.data), "")>>))
  /\ runLog' = Append(runLog, Event("format", Top.sql))
  /\ UNCHANGED <<runIn, runTx, runThrown, runIssued, runResult>>
  /\ UNCHANGED nonRunVars

\* the promise returned to the caller of run settles
Settle ==
  /\ Len(runStack) = 1
  /\ Top.pc = "done"
  /\ runResult' = Top.out
  /\ runStack' = SetTop(Frame(Top.sql, "settled", Top.data, Top.out))
  /\ runLog' = Append(runLog, Event("settle", Top.sql))
  /\ UNCHANGED <<runIn, runTx, runThrown, runIssued>>
  /\ UNCHANGED nonRunVars

\* statements handed to the driver and not yet completed
InFlight ==
  Cardinality({ i \in 1..Len(runLog) : runLog[i].ev = "execute" })
    - Cardinality({ i \in 1..Len(runLog) : runLog[i].ev \in {"ok", "error"} })

IdleRun ==
  /\ runIn = [none |-> TRUE]
  /\ runStack = <<>>
  /\ runTx = ""
  /\ runThrown = <<>>
  /\ runIssued = <<>>
  /\ runLog = <<>>
  /\ runResult = <<>>

(***************************************************************************)
(* Query.formatBindParameters                                              *)
(*                                                                         *)
(* The statement is a sequence of tokens: plain text, a literal question   *)
(* mark, the escape $$, and the parameters $1 $2 (positions of an array)   *)
(* and $one $two (keys of an object).                                      *)
(***************************************************************************)
TextTokens == {"t", "?"}
ParamTokens == {"$1", "$2", "$one", "$two"}
SqlTokens == TextTokens \cup {"$$"} \cup ParamTokens

SqlTexts == UNION { [1..n -> SqlTokens] : n \in 0..MaxTokens }

\* a bind value: undefined, null or a value
BindValues == {Undefined, "null", "a", "b"}

\* values: absent, an array or an object, with two slots (index 0 / key one,
\* index 1 / key two)
BindInputs ==
  [sql : SqlTexts, values : {"none", "array", "object"}, slots : [1..2 -> BindValues]]

\* AbstractQuery.formatBindParameters: the key a parameter token names in
\* the given values, 0 when it names none (a name in an array, a number in
\* an object)
SlotOf(token, values) ==
  IF values = "array"
    THEN (IF token = "$1" THEN 1 ELSE IF token = "$2" THEN 2 ELSE 0)
    ELSE (IF token = "$one" THEN 1 ELSE IF token = "$two" THEN 2 ELSE 0)

\* lines 23-29: replacementFunc, <<>> for undefined, else the value pushed
replacementFuncMutant(in, slot, bindParam) ==
  IF in.slots[slot] # Undefined THEN <<in.slots[1]>> ELSE <<>>

replacementFunc(in, slot, bindParam) ==
  IF in.slots[slot] # Undefined THEN <<in.slots[slot]>> ELSE <<>>

BindResult(kind, sql, bindParam) == [kind |-> kind, sql |-> sql, bindParam |-> bindParam]

\* sql.replace(/\$(\$|\w+)/g, ...) from token i on, with the text written so
\* far and the values pushed so far; a parameter without a value throws
RECURSIVE ReplaceFrom(_, _, _, _)
ReplaceFrom(in, i, written, bindParam) ==
  IF i > Len(in.sql) THEN BindResult("ok", written, bindParam)
  ELSE IF in.sql[i] \in TextTokens
    THEN ReplaceFrom(in, i + 1, Append(written, in.sql[i]), bindParam)
  ELSE IF in.sql[i] = "$$"
    THEN ReplaceFrom(in, i + 1, Append(written, "$"), bindParam)
  ELSE IF SlotOf(in.sql[i], in.values) = 0
    THEN BindResult("throw", <<>>, <<>>)
  ELSE IF replacementFunc(in, SlotOf(in.sql[i], in.values), bindParam) = <<>>
    THEN BindResult("throw", <<>>, <<>>)
  ELSE ReplaceFrom(in, i + 1, Append(written, "?"),
                   bindParam \o replacementFunc(in, SlotOf(in.sql[i], in.values), bindParam))

\* lines 21-32: without values the text is returned as it is; the bind list
\* is <<>> for undefined, else <<the list>>
formatBindParameters(in) ==
  IF in.values = "none" THEN BindResult("ok", in.sql, <<>>)
  ELSE LET r == ReplaceFrom(in, 1, <<>>, <<>>)
       IN IF r.kind = "throw" THEN r
          ELSE BindResult("ok", r.sql, IF Len(r.bindParam) > 0 THEN <<r.bindParam>> ELSE <<>>)

FormatBindParameters ==
  /\ fbOut = <<>>
  /\ fbIn \in BindInputs
  /\ fbOut' = <<formatBindParameters(fbIn)>>
  /\ UNCHANGED fbIn
  /\ UNCHANGED nonFbVars

IdleBind ==
  /\ fbIn = [none |-> TRUE]
  /\ fbOut = <<>>

(***************************************************************************)
(* Specifications                                                          *)
(***************************************************************************)
IdleConn ==
  /\ connPc = None
  /\ connAttempts = 0
  /\ connectString = <<>>
  /\ fetchAsString = <<>>
  /\ connThrown = <<>>
  /\ connection = FreshConnection
  /\ closeCalls = 0
  /\ closeFired = <<>>
  /\ disc = [d \in 1..MaxDisconnects |-> "idle"]
  /\ validated = <<>>

InitConn ==
  /\ IdleConn /\ IdleUpsert /\ IdleJson /\ IdleRequest /\ IdleFormatError /\ IdleCreateTable
  /\ IdleAttribute
  /\ IdleRun
  /\ IdleBind

NextConn ==
  \/ Connect
  \/ CreatePoolResolves
  \/ CreatePoolRejects
  \/ GetConnectionResolves
  \/ GetConnectionRejects
  \/ DriverSetsFlag
  \/ Validate
  \/ \E d \in 1..MaxDisconnects : Disconnect(d)
  \/ \E d \in 1..MaxDisconnects : CloseCallback(d)

SpecConn == InitConn /\ [][NextConn]_vars

InitUpsert ==
  /\ IdleConn
  /\ IdleJson
  /\ IdleRequest
  /\ IdleFormatError
  /\ IdleCreateTable
  /\ IdleAttribute
  /\ IdleRun
  /\ IdleBind
  /\ upIn \in UpsertInputs
  /\ upOut = <<>>

NextUpsert == UpsertQuery

SpecUpsert == InitUpsert /\ [][NextUpsert]_vars

InitJson ==
  /\ IdleConn
  /\ IdleUpsert
  /\ IdleRequest
  /\ IdleFormatError
  /\ IdleCreateTable
  /\ IdleAttribute
  /\ IdleRun
  /\ IdleBind
  /\ jsStmt \in Statements
  /\ jsPc = "scan"
  /\ ScanStart

NextJson ==
  \/ ScanFunction
  \/ ScanOperator
  \/ ScanToken
  \/ ScanBreak
  \/ HandleSequelizeMethod

SpecJson == InitJson /\ [][NextJson]_vars

\* the statements whose scan is followed to its end
ScanStatements == UNION { [1..n -> Chars] : n \in 1..MaxScanLen }

InitJsonLive ==
  /\ InitJson
  /\ jsStmt \in ScanStatements

\* the scan is synchronous code: it runs until it returns or throws
SpecJsonLive == InitJsonLive /\ [][NextJson]_vars /\ WF_vars(NextJson)

InitRequest ==
  /\ IdleConn
  /\ IdleUpsert
  /\ IdleJson
  /\ IdleFormatError
  /\ IdleCreateTable
  /\ IdleAttribute
  /\ IdleRun
  /\ IdleBind
  /\ rqIn \in Requests
  /\ rqPc = "new"
  /\ rqCount = 1
  /\ rqError = <<>>
  /\ acquired = 0
  /\ emitted = 0

NextRequestSpec ==
  \/ Query
  \/ AcquireConnection
  \/ Execute
  \/ Complete
  \/ NextRequest

SpecRequest == InitRequest /\ [][NextRequestSpec]_vars

InitFormatError ==
  /\ IdleConn
  /\ IdleUpsert
  /\ IdleJson
  /\ IdleRequest
  /\ IdleCreateTable
  /\ IdleAttribute
  /\ IdleRun
  /\ IdleBind
  /\ feIn \in FormatErrorInputs
  /\ feOut = <<>>

NextFormatError == FormatError

SpecFormatError == InitFormatError /\ [][NextFormatError]_vars

InitCreateTable ==
  /\ IdleConn
  /\ IdleUpsert
  /\ IdleJson
  /\ IdleRequest
  /\ IdleFormatError
  /\ IdleAttribute
  /\ IdleRun
  /\ IdleBind
  /\ ctIn \in CreateTableInputs
  /\ ctOut = <<>>

NextCreateTable == CreateTableQuery

SpecCreateTable == InitCreateTable /\ [][NextCreateTable]_vars

\* the query generator called repeatedly on the same input objects: one of
\* its operations is chosen with its arguments, then called up to MaxCalls times
InitGenerate ==
  /\ IdleConn
  /\ IdleJson
  /\ IdleRequest
  /\ IdleFormatError
  /\ IdleRun
  /\ IdleBind
  /\ upOut = <<>>
  /\ ctOut = <<>>
  /\ atOut = <<>>
  /\ dqOut = <<>>
  /\ \/ /\ upIn \in UpsertInputs
        /\ ctIn = [none |-> TRUE] /\ atIn = [none |-> TRUE] /\ dqIn = [none |-> TRUE]
     \/ /\ ctIn \in CreateTableInputs
        /\ upIn = NoUpsertInput /\ atIn = [none |-> TRUE] /\ dqIn = [none |-> TRUE]
     \/ /\ atIn \in AttributeInputs
        /\ upIn = NoUpsertInput /\ ctIn = [none |-> TRUE] /\ dqIn = [none |-> TRUE]
     \/ /\ dqIn \in DeleteInputs
        /\ upIn = NoUpsertInput /\ ctIn = [none |-> TRUE] /\ atIn = [none |-> TRUE]

NextGenerate ==
  \/ UpsertQuery
  \/ CreateTableQuery
  \/ AttributeToSQL
  \/ DeleteQuery

SpecGenerate == InitGenerate /\ [][NextGenerate]_vars

InitRun ==
  /\ IdleConn
  /\ IdleUpsert
  /\ IdleJson
  /\ IdleRequest
  /\ IdleFormatError
  /\ IdleCreateTable
  /\ IdleAttribute
  /\ IdleBind
  /\ runIn \in RunInputs
  /\ runStack = <<>>
  /\ runTx = ""
  /\ runThrown = <<>>
  /\ runIssued = <<>>
  /\ runLog = <<>>
  /\ runResult = <<>>

NextRun ==
  \/ Run
  \/ ExecuteSucceeds
  \/ ExecuteFails
  \/ ThenWarnings
  \/ WarningsFetched
  \/ ThenFormatResults
  \/ Settle

SpecRun == InitRun /\ [][NextRun]_vars

\* the driver completes every statement it is handed and the callbacks of
\* settled promises are run
SpecRunLive == InitRun /\ [][NextRun]_vars /\ WF_vars(NextRun)

InitBind ==
  /\ IdleConn
  /\ IdleUpsert
  /\ IdleJson
  /\ IdleRequest
  /\ IdleFormatError
  /\ IdleCreateTable
  /\ IdleAttribute
  /\ IdleRun
  /\ fbIn \in BindInputs
  /\ fbOut = <<>>

NextBind == FormatBindParameters

SpecBind == InitBind /\ [][NextBind]_vars

(***************************************************************************)
(* Claims on the connection manager                                        *)
(***************************************************************************)

\* C1: validate(connection) is false whenever any of fatalError,
\* protocolError, closing, closed is true and true when all four are false
ValidateMatchesFlags ==
  validated # <<>> =>
    (validated[1].result = TRUE <=>
       (\A f \in FlagNames : validated[1].arg[f] = FALSE))

\* a validate call on a connection whose only raised flag is closed
ValidateOnClosedOnly ==
  /\ validated # <<>>
  /\ validated[1].arg.closed
  /\ ~validated[1].arg._closing
  /\ ~validated[1].arg._fatalError
  /\ ~validated[1].arg._protocolError
  /\ validated[1].result = FALSE

\* C8: disconnect on a connection already Closing or Closed returns
\* immediately without calling the driver's close
DisconnectOnClosingOrClosedIsNoop ==
  [][\A d \in 1..MaxDisconnects :
       (disc[d] = "idle" /\ disc'[d] # "idle" /\ (connection._closing \/ connection.closed))
         => (disc'[d] = "returned" /\ closeCalls' = closeCalls)]_vars

\* C9: a failed connect throws exactly one typed error chosen by errCode;
\* every other or missing code gives the generic ConnectionError
ExpectedConnectError(code) ==
  IF code = "ECONNREFUSED" THEN "ConnectionRefusedError"
  ELSE IF code = "ER_ACCESS_DENIED_ERROR" THEN "AccessDeniedError"
  ELSE IF code = "ENOTFOUND" THEN "HostNotFoundError"
  ELSE IF code = "EHOSTUNREACH" THEN "HostNotReachableError"
  ELSE IF code = "EINVAL" THEN "InvalidConnectionError"
  ELSE "ConnectionError"

ConnectFailsWithOneTypedError ==
  connPc = "failed" =>
    /\ Len(connThrown) = 1
    /\ connThrown[1].name = ExpectedConnectError(connThrown[1].parent.errCode)

\* a connect that failed in getConnection with a host-not-found error
ConnectFailedHostNotFound ==
  /\ connPc = "failed"
  /\ Len(connThrown) = 1
  /\ connThrown[1].parent.errCode = "ENOTFOUND"
  /\ connAttempts = 2

\* a connect that failed with an error carrying no errCode
ConnectFailedWithoutCode ==
  /\ connPc = "failed"
  /\ connThrown[1].parent.errCode = Undefined
  /\ connThrown[1].name = "ConnectionError"

\* C16: disconnect on a connection that is not closing issues the driver's
\* close exactly once, and its result settles only when the driver fires the
\* close callback: resolved without an error, rejected with one
DisconnectClosesOnceAndAwaits ==
  [][\A d \in 1..MaxDisconnects :
       /\ (disc[d] = "idle" /\ disc'[d] # "idle" /\ ~connection._closing)
            => (disc'[d] = "closing" /\ closeCalls' = closeCalls + 1)
       /\ (disc'[d] # disc[d] /\ disc'[d] \in {"resolved", "rejected"})
            => /\ disc[d] = "closing"
               /\ closeCalls' = closeCalls
               /\ Len(closeFired') = Len(closeFired) + 1
               /\ closeFired'[Len(closeFired')].d = d
               /\ (disc'[d] = "rejected") <=> (closeFired'[Len(closeFired')].err # Undefined)]_vars

\* a disconnect whose close callback reported an error has rejected
DisconnectRejectedAfterClose ==
  /\ disc[1] = "rejected"
  /\ closeCalls = 1
  /\ closeFired = <<[d |-> 1, err |-> "error"]>>

\* C28: however two or more disconnect calls on the same open connection
\* interleave, the driver's close is invoked at most once on it
CloseInvokedAtMostOnce == closeCalls <= 1

(***************************************************************************)
(* Claims on upsertQuery                                                   *)
(***************************************************************************)
\* the column name of the model's auto-increment attribute, if any
IdentityColumns(rawAttributes) == { a.field : a \in { b \in rawAttributes : b.autoIncrement } }

\* C2: whatever the name and position of the identity column among the
\* update fields, UPDATE SET never references it
UpdateNeverSetsIdentity ==
  upOut # <<>> =>
    \A c \in IdentityColumns(upIn.rawAttributes) :
      InSeq(c, upIn.updateValues) => ~InSeq(c, upOut[1].update)

\* C3: when the inserted fields include the identity column, INSERT omits
\* exactly that column from its column list and its VALUES list and keeps
\* every other inserted field, in order
InsertOmitsExactlyIdentity ==
  upOut # <<>> =>
    \A c \in IdentityColumns(upIn.rawAttributes) :
      LET inserted == upsertFields(removeNullValuesFromHash(upIn.insertValues, upIn.omitNull))
          others == SelectSeq(inserted, LAMBDA f : f # quoteIdentifier(c))
      IN InSeq(quoteIdentifier(c), inserted) =>
           /\ upOut[1].insert.columns = others
           /\ upOut[1].insert.values = [j \in 1..Len(others) |-> "T2." \o others[j]]

\* C17: UPDATE SET assigns every update field that is not the identity
\* column (nor the column named id), whatever the order of the fields
NoNonIdentityUpdateFieldDropped ==
  upOut # <<>> =>
    \A i \in 1..Len(upIn.updateValues) :
      (upIn.updateValues[i] \notin IdentityColumns(upIn.rawAttributes) \cup {"id"})
        => InSeq(upIn.updateValues[i], upOut[1].update)

\* the fields projected by the candidate SELECT, before any placeholder
ProjectedFields == upsertFields(removeNullValuesFromHash(upIn.insertValues, upIn.omitNull))

\* the candidate SELECT starts with the NULL "id" placeholder
PlaceholderInjected ==
  /\ Len(upOut[1].select) = Len(ProjectedFields) + 1
  /\ upOut[1].select[1].expr.kind = "NULL"
  /\ upOut[1].select[1].as = quoteIdentifier("id")

\* C18 as stated: the placeholder is injected exactly when the first
\* projected field is not the model's identity (auto-increment) column
PlaceholderIffFirstNotIdentity ==
  (upOut # <<>> /\ Len(ProjectedFields) > 0) =>
    (PlaceholderInjected <=>
       ProjectedFields[1] \notin { quoteIdentifier(c) : c \in IdentityColumns(upIn.rawAttributes) })

\* C18: the NULL "id" placeholder is injected exactly when the first
\* projected field is not the column named id, and then the projected fields
\* follow it unchanged
PlaceholderIffFirstNotNamedId ==
  (upOut # <<>> /\ Len(ProjectedFields) > 0) =>
    /\ PlaceholderInjected <=> (ProjectedFields[1] # quoteIdentifier("id"))
    /\ ~PlaceholderInjected =>
         /\ Len(upOut[1].select) = Len(ProjectedFields)
         /\ \A i \in 1..Len(ProjectedFields) : upOut[1].select[i].as = ProjectedFields[i]
    /\ PlaceholderInjected =>
         \A i \in 1..Len(ProjectedFields) : upOut[1].select[i + 1].as = ProjectedFields[i]

\* a candidate SELECT whose first projected field is name and whose second
\* is id: the placeholder is injected
PlaceholderBeforeNameThenId ==
  /\ upOut # <<>>
  /\ Len(ProjectedFields) = 2
  /\ ProjectedFields[1] = quoteIdentifier("name")
  /\ ProjectedFields[2] = quoteIdentifier("id")
  /\ PlaceholderInjected

\* the placeholders of the candidate SELECT, in order of appearance
BindPlaceholders(out) ==
  SelectSeq([i \in 1..Len(out.select) |-> out.select[i].expr], LAMBDA e : e.kind = "bind")

SelectColumns(out) == [i \in 1..Len(out.select) |-> out.select[i].as]

\* C27: the candidate SELECT (T2) projects pairwise distinct column names,
\* and every T2 column read by the ON condition, by UPDATE SET and by the
\* VALUES list of INSERT is one of them
CandidateColumnsDistinctAndCovering ==
  \A c \in 1..Len(upOut) :
    LET out == upOut[c]
        projected == SelectColumns(out)
    IN /\ DistinctKeys(projected)
       /\ InSeq(quoteIdentifier("id"), projected)
       /\ \A i \in 1..Len(out.update) : InSeq(quoteIdentifier(out.update[i]), projected)
       /\ \A i \in 1..Len(out.insert.values) :
            \E j \in 1..Len(projected) : out.insert.values[i] = "T2." \o projected[j]

(***************************************************************************)
(* Claims on the JSON statement check                                      *)
(***************************************************************************)
\* C4: a path with a ';' anywhere after a recognized JSON function call
\* fails with an error; handleSequelizeMethod never returns the path as SQL
TerminatorAfterFunctionCall ==
  \E c \in 1..Len(functionCalls) :
    \E p \in (functionCalls[c] + 1)..Len(jsStmt) : jsStmt[p] = ";"

TerminatorAfterJsonFunctionFails ==
  (jsPc = "done" /\ TerminatorAfterFunctionCall) => jsOut[1].kind = "error"

\* parentheses outside quoted text, scanned from position i at nesting
\* depth d: balanced when no ')' comes at depth 0 and the end is at depth 0
RECURSIVE BalancedFrom(_, _, _, _)
BalancedFrom(s, i, d, quoted) ==
  IF i > Len(s) THEN d = 0
  ELSE IF s[i] = "'" THEN BalancedFrom(s, i + 1, d, ~quoted)
  ELSE IF quoted THEN BalancedFrom(s, i + 1, d, quoted)
  ELSE IF s[i] = "(" THEN BalancedFrom(s, i + 1, d + 1, quoted)
  ELSE IF s[i] = ")" THEN (d > 0 /\ BalancedFrom(s, i + 1, d - 1, quoted))
  ELSE BalancedFrom(s, i + 1, d, quoted)

\* C20: a statement with a JSON function call or operator is accepted (the
\* path is returned as SQL) only if its parentheses are balanced: every ')'
\* closes an open '(' and none is left open
AcceptedOnlyIfBalanced ==
  (jsPc = "done" /\ hasJsonFunction /\ jsOut[1].kind = "sql")
    => BalancedFrom(jsStmt, 1, 0, FALSE)

\* C30: every iteration of the scanning loop that stays in the loop moves
\* currentIndex forward, and the scan of every statement ends: the function
\* returns a boolean or throws
ScanLoopTerminates ==
  /\ [][(jsPc = "scan" /\ jsPc' = "scan") => currentIndex' > currentIndex]_vars
  /\ (jsPc = "scan") ~> (jsPc = "done" /\ jsOut # <<>>)

\* a scan that matched an operator and bracket tokens has consumed the
\* whole statement and returned
ScannedOperatorAndTokens ==
  /\ jsPc = "done"
  /\ jsOut # <<>>
  /\ currentIndex = Len(jsStmt)
  /\ hasJsonFunction
  /\ openingBrackets > 0
  /\ closingBrackets > 0
  /\ \E i \in 1..(Len(jsStmt) - 1) : jsStmt[i] = "-" /\ jsStmt[i + 1] = ">"

(***************************************************************************)
(* Claims on request validation                                            *)
(***************************************************************************)
\* C5: a request that supplies both replacements and bind values fails with
\* the construction error before any connection is acquired and before any
\* statement reaches the driver
BothSuppliedRejectedBeforeConnection ==
  [][(rqIn.replacements /\ rqIn.bind /\ rqPc \in {"new", "rejected"})
       => /\ rqPc = "new" => (rqPc' = "rejected" /\ rqError' = <<BothMessage>>)
          /\ acquired' = acquired
          /\ emitted' = emitted]_vars

\* a second request rejected for supplying both, after a first one that ran
SecondRequestRejected ==
  /\ rqPc = "rejected"
  /\ rqIn.replacements /\ rqIn.bind
  /\ rqError = <<BothMessage>>
  /\ rqCount = 2
  /\ acquired = 1
  /\ emitted = 1

(***************************************************************************)
(* Claims on Query.formatError                                             *)
(***************************************************************************)
\* text.split(sep) on a sequence of characters
RECURSIVE Split(_, _)
Split(text, sep) ==
  IF \E i \in 1..Len(text) : text[i] = sep
    THEN LET i == CHOOSE k \in 1..Len(text) :
                    text[k] = sep /\ \A r \in 1..(k - 1) : text[r] # sep
         IN <<SubSeq(text, 1, i - 1)>> \o Split(SubSeq(text, i + 1, Len(text)), sep)
    ELSE <<text>>

\* the fields of the unique key name_secret
NameSecretFields == <<"name", "secretValue">>

\* the fields a duplicate-key error is to report: for a known unique key its
\* fields paired with the parts of the entry, otherwise the key name paired
\* with the whole entry
ExpectedUniqueFields(in) ==
  LET keyName == in.message.key[Len(in.message.key)]
      parts == Split(in.message.entry, "-")
  IN IF in.hasModel /\ keyName = "name_secret"
       THEN [i \in 1..Len(NameSecretFields) |->
               [field |-> NameSecretFields[i],
                value |-> IF i <= Len(parts) THEN <<parts[i]>> ELSE <<>>]]
       ELSE <<[field |-> keyName, value |-> <<in.message.entry>>]>>

\* C6: a duplicate-key error (code 1062) is classified as a
\* UniqueConstraintError whose fields map the known key's field names to the
\* parts of the entry, or the unknown key's name to the whole entry
DuplicateKeyIsUniqueConstraintError ==
  (feOut # <<>> /\ errCodeOf(feIn) = 1062 /\ feIn.message.kind = "dup") =>
    /\ feOut[1].type = "UniqueConstraintError"
    /\ feOut[1].fields = ExpectedUniqueFields(feIn)

\* C7: a foreign-key error is classified as a ForeignKeyConstraintError with
\* reltype parent for 1451 and child for 1452, and table, fields and index
\* parsed from the message for either quoting
ForeignKeyIsForeignKeyConstraintError ==
  (feOut # <<>> /\ errCodeOf(feIn) \in {1451, 1452} /\ feIn.message.kind = "fk") =>
    /\ feOut[1].type = "ForeignKeyConstraintError"
    /\ feOut[1].reltype = (IF errCodeOf(feIn) = 1451 THEN "parent" ELSE "child")
    /\ feOut[1].table = feIn.message.table
    /\ feOut[1].fkFields = feIn.message.fields
    /\ feOut[1].index = feIn.message.index

\* C12: every typed error produced by connect or by formatError carries
\* the original driver error as its parent
TypedErrorCarriesDriverError ==
  /\ \A i \in 1..Len(connThrown) : connThrown[i].parent \in DriverErrors
  /\ feOut # <<>> => feOut[1].parent = <<feIn>>

(***************************************************************************)
(* Claims on createTableQuery                                              *)
(***************************************************************************)
\* the columns declared as primary key: those whose type clause carries the
\* PRIMARY KEY keyword
PrimaryKeyColumns(attributes) ==
  LET pk == SelectSeq(attributes, LAMBDA a : InSeq(PrimaryKeyWord, a.dataType))
  IN [i \in 1..Len(pk) |-> quoteIdentifier(pk[i].attr)]

ReferencingColumns(attributes) ==
  { a.attr : a \in { attributes[i] : i \in { k \in 1..Len(attributes) :
                                               InSeq(ReferencesPart, attributes[k].dataType) } } }

ClausesOfKind(out, kind) == { i \in 1..Len(out.clauses) : out.clauses[i].kind = kind }

\* C10: the primary-key columns, if any, appear as a single composite
\* PRIMARY KEY clause after every column definition and before every FOREIGN
\* KEY clause; a table with no referencing column has no FOREIGN KEY clause
PrimaryKeyClauseSingleAndOrdered ==
  ctOut # <<>> =>
    LET out == ctOut[1]
        pkCols == PrimaryKeyColumns(ctIn.attributes)
        primary == ClausesOfKind(out, "primary")
    IN /\ \A i \in ClausesOfKind(out, "column") : ~InSeq(PrimaryKeyWord, out.clauses[i].body)
       /\ IF Len(pkCols) > 0
            THEN /\ Cardinality(primary) = 1
                 /\ \A p \in primary :
                      /\ out.clauses[p].body = pkCols
                      /\ \A i \in ClausesOfKind(out, "column") : i < p
                      /\ \A i \in ClausesOfKind(out, "foreign") : p < i
            ELSE primary = {}
       /\ ReferencingColumns(ctIn.attributes) = {} => ClausesOfKind(out, "foreign") = {}

\* the index of the foreign-key reference in a type clause, 0 when the
\* column has none
ReferenceAt(dataType) ==
  IF InSeq(ReferencesPart, dataType)
    THEN CHOOSE i \in 1..Len(dataType) : dataType[i] = ReferencesPart
    ELSE 0

DefaultParts ==
  { "DEFAULT " \o escape(v) :
      v \in DefaultValues \cup {[kind |-> "number", text |-> "0"]} }

\* C22: attributeToSQL emits no DEFAULT clause for a column of type BLOB,
\* TEXT, JSON or GEOMETRY, with or without a GEOMETRY subtype, even when a
\* default value is passed
NoDefaultForLargeTypes ==
  \A c \in 1..Len(atOut) :
    atIn.attribute.type.key \in {"BLOB", "TEXT", "JSON", "GEOMETRY"} =>
      \A i \in 1..Len(atOut[c]) : atOut[c][i] \notin DefaultParts

\* C23: attributeToSQL leaves every field of the column definition it is
\* given, defaultValue included, as it was before the call
AttributeIsReadOnly == [][atIn' = atIn]_vars

ErrorDelivered == \E i \in 1..Len(runLog) : runLog[i].ev = "error"

\* C13: when the driver completes a statement with an error, run surfaces
\* it as a rejection of the returned promise; the error is never thrown out
\* of the driver's completion callback and formatResults is never applied
\* to the failed execution
DriverErrorSurfacesAsRejection ==
  ErrorDelivered =>
    /\ runThrown = <<>>
    /\ Top.pc \in {"done", "settled"}
    /\ Top.out[1].state = "rejected"
    /\ \A i, j \in 1..Len(runLog) :
         (runLog[i].ev = "error" /\ i < j) => runLog[j].ev # "format"

\* C24: a driver error with errno 1213 on a query that has a transaction
\* marks the transaction finished as rollback and the promise is then
\* rejected with the classified error; any other error, or an error on a
\* query without a transaction, changes no transaction state
DeadlockMarksRollbackThenRejects ==
  LET deadlock == \E i \in 1..Len(runLog) :
                    runLog[i].ev = "error" /\ runLog[i].errno = 1213
  IN /\ runTx = (IF runIn # [none |-> TRUE] /\ runIn.transaction /\ deadlock
                  THEN "rollback" ELSE "")
     /\ (runTx = "rollback" /\ Len(runStack) = 1) =>
          /\ Top.pc \in {"done", "settled"}
          /\ Top.out[1].state = "rejected"
          /\ Top.out[1].error \in {"DatabaseError", "UniqueConstraintError",
                                   "ForeignKeyConstraintError"}

\* the promise returned by run has resolved
RunResolved == runResult # <<>> /\ runResult[1].state = "resolved"

\* C15 as stated: UPDATE, bulk delete and UPSERT return the affected-row
\* count and SELECT returns the row sequence
UpdateDeleteUpsertReturnCount ==
  RunResolved =>
    /\ runIn.type \in {"UPDATE", "BULKDELETE", "UPSERT"} =>
         /\ runResult[1].value.kind = "count"
         /\ runResult[1].value.count = runStack[1].data.affectedRows
    /\ runIn.type = "SELECT" =>
         /\ runResult[1].value.kind = "select"
         /\ runResult[1].value.rows = runStack[1].data.rows

\* C15: on success the result is reshaped by the query type: BULKUPDATE,
\* BULKDELETE and UPSERT return the affected-row count, UPDATE returns the
\* pair of the instance and the affected-row count, SELECT returns the rows
BulkAndUpsertReturnCount ==
  RunResolved =>
    /\ runIn.type \in {"BULKUPDATE", "BULKDELETE", "UPSERT"} =>
         /\ runResult[1].value.kind = "count"
         /\ runResult[1].value.count = runStack[1].data.affectedRows
    /\ runIn.type = "UPDATE" =>
         /\ runResult[1].value.kind = "pair"
         /\ runResult[1].value.count = runStack[1].data.affectedRows
         /\ runResult[1].value.result.kind = (IF runIn.instance THEN "instance" ELSE "undefined")
    /\ runIn.type = "SELECT" =>
         /\ runResult[1].value.kind = "select"
         /\ runResult[1].value.rows = runStack[1].data.rows

\* an UPSERT that affected two rows has resolved with the count 2
UpsertResolvedWithCount ==
  /\ RunResolved
  /\ runIn.type = "UPSERT"
  /\ runStack[1].data.affectedRows = 2
  /\ runResult[1].value.kind = "count"
  /\ runResult[1].value.count = 2

\* C25: a bulk insert (no instance) on a model whose auto-increment
\* attribute is its primary key resolves with affectedRows envelopes holding
\* insertId, insertId + 1, ... in increasing order; every other insert
\* without an instance resolves with the single insert id
BulkInsertSynthesizesIds ==
  (RunResolved /\ runIn.type = "INSERT" /\ ~runIn.instance) =>
    LET data == runStack[1].data
        result == runResult[1].value.result
    IN IF runIn.autoIncrementPk
         THEN /\ result.kind = "ids"
              /\ Len(result.ids) = data.affectedRows
              /\ \A i \in 1..Len(result.ids) : result.ids[i] = data.insertId + (i - 1)
         ELSE /\ result.kind = "insertId"
              /\ result.ids = <<data.insertId>>

\* C26: at most one statement is in flight at any time, SHOW WARNINGS is
\* handed to the driver only after the handler of the main statement has
\* been called, and when no statement failed the caller receives the
\* formatted result of the main statement
OneInFlightAndMainResultReturned ==
  /\ InFlight <= 1
  /\ \A i \in 1..Len(runLog) :
       (runLog[i].ev = "execute" /\ runLog[i].sql = "SHOW WARNINGS") =>
         \E j \in 1..(i - 1) : runLog[j].ev = "ok" /\ runLog[j].sql = "main"
  /\ (runResult # <<>> /\ ~ErrorDelivered) =>
       runResult[1] = Outcome("resolved", formatResults(runIn, runStack[1].data), "")

\* SHOW WARNINGS statements handed to the driver
WarningsIssued ==
  Cardinality({ i \in 1..Len(runIssued) : runIssued[i].sql = "SHOW WARNINGS" })

\* the nesting of logWarnings has reached the depth the model follows
DepthExceeded == runStack # <<>> /\ Top.pc = "deeper"

\* C29: when the driver completes every statement, a run with showWarnings
\* issues SHOW WARNINGS at most once and the returned promise eventually
\* resolves or rejects, also when every result reports warningStatus > 0
RunSettlesWithBoundedWarnings ==
  /\ [](WarningsIssued <= 1)
  /\ (runLog # <<>>) ~> (runResult # <<>> \/ DepthExceeded)

(***************************************************************************)
(* Claims on Query.formatBindParameters                                    *)
(***************************************************************************)
\* the positions of the statement holding a parameter whose value is defined
Substituted(in) ==
  { i \in 1..Len(in.sql) :
      /\ in.sql[i] \in ParamTokens
      /\ in.values # "none"
      /\ SlotOf(in.sql[i], in.values) # 0
      /\ in.slots[SlotOf(in.sql[i], in.values)] # Undefined }

\* the k-th smallest element of a set of positions
Nth(positions, k) ==
  CHOOSE p \in positions : Cardinality({ r \in positions : r < p }) = k - 1

\* C14: each $key whose value is defined is rewritten into one '?' and its
\* value appended to the bind list in order of appearance (a key used twice
\* is appended twice), so the i-th '?' written corresponds to the i-th bind
\* value; when nothing is substituted the bind list is undefined
PlaceholdersMatchBindList ==
  (fbOut # <<>> /\ fbOut[1].kind = "ok") =>
    LET subst == Substituted(fbIn)
    IN /\ Len(fbOut[1].sql) = Len(fbIn.sql)
       /\ \A i \in subst : fbOut[1].sql[i] = "?"
       /\ \A i \in 1..Len(fbIn.sql) :
            (i \notin subst /\ fbIn.sql[i] # "?") => fbOut[1].sql[i] # "?"
       /\ IF subst = {} THEN fbOut[1].bindParam = <<>>
          ELSE /\ Len(fbOut[1].bindParam) = 1
               /\ Len(fbOut[1].bindParam[1]) = Cardinality(subst)
               /\ \A k \in 1..Cardinality(subst) :
                    fbOut[1].bindParam[1][k] =
                      fbIn.slots[SlotOf(fbIn.sql[Nth(subst, k)], fbIn.values)]

\* a statement naming the key one twice, around the key two, was rewritten
KeyUsedTwiceBoundTwice ==
  /\ fbOut # <<>>
  /\ fbIn.values = "object"
  /\ fbIn.sql = <<"$one", "$two", "$one">>
  /\ fbOut[1].kind = "ok"
  /\ fbOut[1].sql = <<"?", "?", "?">>
  /\ fbOut[1].bindParam = <<<<"a", "null", "a">>>>

====
